---- MODULE Spec2Model ----
(***************************************************************************)
(* Model of elasticsearch_dsl/document.py: the Document persistence layer. *)
(*                                                                         *)
(* Three specifications share the module:                                  *)
(*   Spec      one Document instance and its operations                    *)
(*             (attribute assignment, to_dict, save, update, delete);      *)
(*   SpecMget  one call of Document.mget, record by record;                *)
(*   SpecDecl  declaration of document types and IndexMeta.construct_index.*)
(*                                                                         *)
(* Strings are sequences of one-character strings so that "'*' in index"   *)
(* is computed.  Python's None is the token None; a mapping is a function  *)
(* whose domain is the set of keys present.                                *)
(***************************************************************************)
EXTENDS Integers, Sequences, FiniteSets, TLC

None == <<"None">>

\* no request sent, no response received, nothing returned
NoRequest == [api |-> "none"]
NoResponse == [received |-> FALSE]
NoReturn == [returned |-> FALSE]
\* return v
Return(v) == [returned |-> TRUE, value |-> v]

\* utils.DOC_META_FIELDS / utils.META_FIELDS (imported at document.py:9)
DOC_META_FIELDS == {"id", "routing"}
META_FIELDS == DOC_META_FIELDS \cup {"index"}

\* Names of the index bound to the instance's type; None is an Index built
\* with name=None, "*" is the name of DEFAULT_INDEX.
BoundNames == {None, <<"*">>, <<"a">>}
\* Names an index argument or meta.index can carry.
IndexNames == {<<>>, <<"b">>, <<"b", "*">>}

\* Values assigned to the metadata keys; 'index' holds index names.
MetaVals(k) == IF k = "index" THEN {<<"b">>, <<"b", "*">>}
               ELSE IF k = "id" THEN {<<"1">>}
               ELSE {<<"r">>}

\* Payload fields declared on the document type and the values they take;
\* Empty stands for a value to_dict strips (None, [], {}).
Fields == {"title"}
Empty == <<>>
FieldVals == {Empty, <<"x">>}

\* Keys an engine response can carry besides 'result', without the '_'.
RespKeys == {"id", "index", "shards"}
RespVals(k) == IF k = "index" THEN {<<"c">>}
               ELSE IF k = "id" THEN {<<"2">>}
               ELSE {<<"s">>}
Results == {"created", "updated", "noop"}

\* self._doc_type.name
doc_type_name == <<"doc">>

\* extra keyword arguments merged over the DOC_META_FIELDS: delete is called
\* with and without one, save without
DeleteKwargs == {[k \in {} |-> None], [k \in {"routing"} |-> <<"k">>]}
SaveKwargs == {[k \in {} |-> None]}

\* values of a keyword argument of update
FieldValsOf(k) == FieldVals

VARIABLES
    index_name,  \* self._index._name of the instance's type
    meta,        \* self.meta: mapping of metadata keys to values
    d,           \* payload: mapping of field names to values
    op,          \* the operation performed last
    args,        \* its arguments
    exc,         \* the exception it raised, "none" when it returned
    calls,       \* transport calls it issued
    sent,        \* the request it sent to the engine
    resp,        \* the engine's response to that request
    ret          \* what it returned

docvars == <<index_name, meta, d, op, args, exc, calls, sent, resp, ret>>

\* One call of Document.mget
VARIABLES
    mpc,         \* "idle", "scan" (inside the for loop) or "done"
    margs,       \* the call's arguments
    msent,       \* the request passed to es.mget
    results,     \* results['docs'], the records of the response
    pos,         \* position of the record the loop handles next
    acc,         \* objs, error_docs, missing_docs and a pending exception
    mexc,        \* the exception the call raised, "none" when it has not
    mret,        \* what the call returned
    nraised      \* exceptions raised by the call

mgetvars == <<mpc, margs, msent, results, pos, acc, mexc, mret, nraised>>

\* Declared document types
VARIABLES
    classes,     \* the types built by IndexMeta, in declaration order:
                 \* their bases, their Index config and their _index
    indices      \* the Index objects, in order of construction: _name,
                 \* _using and the document types registered with .document()

declvars == <<classes, indices>>

vars == <<docvars, mgetvars, declvars>>

\* Largest number of documents requested in one mget.
MaxDocs == 3
\* Largest number of document types declared besides Document itself.
MaxClasses == 3
\* Largest number of bases of a declared type.
MaxBases == 2

----------------------------------------------------------------------------
\* Helpers

\* finite mappings as functions on the set of present keys
EmptyMap == [k \in {} |-> None]
Update(f, g) == [k \in DOMAIN f \cup DOMAIN g |-> IF k \in DOMAIN g THEN g[k] ELSE f[k]]
\* the mappings with keys among DOMAIN V and a value of V[k] under each key k
Maps(V) ==
    UNION {{f \in [S -> UNION {V[k] : k \in S}] : \A k \in S : f[k] \in V[k]} :
              S \in SUBSET DOMAIN V}

\* '*' in index
HasWildcard(s) == \E i \in 1..Len(s) : s[i] = "*"
\* truth value of a str-or-None
Truthy(s) == s /= None /\ s /= <<>>

\* getattr(self.meta, k, None)
MetaGet(m, k) == IF k \in DOMAIN m THEN m[k] ELSE None

\* _get_index without the wildcard test
_get_index_NoWildcardCheck(m, cname, index, required) ==
    LET i1 == IF index = None THEN MetaGet(m, "index") ELSE index
        i2 == IF i1 = None THEN cname ELSE i1
    IN  IF i2 = None /\ required
          THEN [exc |-> "ValidationException", val |-> None]
        ELSE [exc |-> "none", val |-> i2]

\* _get_index looking at meta.index before the index argument
_get_index_MetaFirst(m, cname, index, required) ==
    LET i1 == IF MetaGet(m, "index") = None THEN index ELSE MetaGet(m, "index")
        i2 == IF i1 = None THEN cname ELSE i1
    IN  IF i2 = None /\ required
          THEN [exc |-> "ValidationException", val |-> None]
        ELSE IF Truthy(i2) /\ HasWildcard(i2)
          THEN [exc |-> "ValidationException", val |-> None]
        ELSE [exc |-> "none", val |-> i2]

\* Document._get_index: the exception raised and the index returned
_get_index(m, cname, index, required) ==
    LET i1 == IF index = None THEN MetaGet(m, "index") ELSE index
        i2 == IF i1 = None THEN cname ELSE i1
    IN  IF i2 = None /\ required
          THEN [exc |-> "ValidationException", val |-> None]
        ELSE IF Truthy(i2) /\ HasWildcard(i2)
          THEN [exc |-> "ValidationException", val |-> None]
        ELSE [exc |-> "none", val |-> i2]

\* dict((k, self.meta[k]) for k in DOC_META_FIELDS if k in self.meta)
DocMeta(m) == [k \in DOC_META_FIELDS \cap DOMAIN m |-> m[k]]

\* ObjectBase.to_dict(skip_empty)
ObjectToDict(dd, skip_empty) ==
    [k \in {k \in DOMAIN dd : skip_empty => dd[k] /= Empty} |-> dd[k]]

\* utils.merge(self, fields)
merge(dd, fields) == Update(dd, fields)

\* copying every key of the response
CopyMeta_AllKeys(m, r) == Update(m, r)

\* for k in META_FIELDS: if '_' + k in meta: setattr(self.meta, k, meta['_' + k])
CopyMeta(m, r) == Update(m, [k \in META_FIELDS \cap DOMAIN r |-> r[k]])

\* dict(('_' + k, g[k]) for k in g)
Prefixed(g) == [k \in {"_" \o f : f \in DOMAIN g} |-> g[CHOOSE f \in DOMAIN g : "_" \o f = k]]

\* return meta['result'] != 'updated'
SaveResult_NotUpdated(r) == r.result /= "updated"

\* return meta['result'] == 'created'
SaveResult(r) == r.result = "created"

\* Document.to_dict: the exception raised and the mapping returned
to_dict(m, dd, cname, include_meta, skip_empty) ==
    LET src == ObjectToDict(dd, skip_empty)
        gi == _get_index(m, cname, None, FALSE)
        m1 == Prefixed(DocMeta(m))
        m2 == IF gi.val /= None THEN Update(m1, [k \in {"_index"} |-> gi.val]) ELSE m1
        m3 == Update(m2, [k \in {"_type"} |-> doc_type_name])
        m4 == Update(m3, [k \in {"_source"} |-> src])
    IN  IF ~include_meta THEN [exc |-> "none", ret |-> Return(src)]
        ELSE IF gi.exc /= "none" THEN [exc |-> gi.exc, ret |-> NoReturn]
        ELSE [exc |-> "none", ret |-> Return(m4)]

----------------------------------------------------------------------------
InitDoc ==
    /\ index_name \in BoundNames
    /\ meta = EmptyMap
    /\ d = EmptyMap
    /\ op = "init"
    /\ args = None
    /\ exc = "none"
    /\ calls = 0
    /\ sent = NoRequest
    /\ resp = NoResponse
    /\ ret = NoReturn

\* An operation that raised before any request was sent.
Raised(e) ==
    /\ exc' = e
    /\ calls' = 0
    /\ sent' = NoRequest
    /\ resp' = NoResponse
    /\ ret' = NoReturn

\* Document.__setattr__: '_' + a META_FIELDS name goes to self.meta,
\* any other name to the payload.
SetAttr ==
    \E name \in META_FIELDS \cup Fields :
    \E value \in (IF name \in META_FIELDS THEN MetaVals(name) ELSE FieldVals) :
        LET underscore == name \in META_FIELDS
        IN  /\ op' = "setattr"
            /\ args' = [name |-> name, underscore |-> underscore, value |-> value]
            /\ IF underscore /\ name \in META_FIELDS
                 THEN meta' = Update(meta, [k \in {name} |-> value]) /\ d' = d
                 ELSE d' = Update(d, [k \in {name} |-> value]) /\ meta' = meta
            /\ exc' = "none" /\ calls' = 0 /\ sent' = NoRequest /\ resp' = NoResponse
            /\ ret' = Return(None)
            /\ UNCHANGED <<index_name, mgetvars, declvars>>

\* Document.to_dict
ToDict ==
    \E include_meta \in BOOLEAN, skip_empty \in BOOLEAN :
        LET r == to_dict(meta, d, index_name, include_meta, skip_empty)
        IN  /\ op' = "to_dict"
            /\ args' = [include_meta |-> include_meta, skip_empty |-> skip_empty]
            /\ exc' = r.exc
            /\ ret' = r.ret
            /\ calls' = 0 /\ sent' = NoRequest /\ resp' = NoResponse
            /\ UNCHANGED <<index_name, meta, d, mgetvars, declvars>>

\* Document.save; valid is the outcome of self.full_clean()
Save ==
    \E index \in IndexNames \cup {None}, validate \in BOOLEAN, valid \in BOOLEAN,
       kwargs \in SaveKwargs :
        LET doc_meta == Update(DocMeta(meta), kwargs)
            gi == _get_index(meta, index_name, index, TRUE)
        IN  /\ validate \/ valid
            /\ op' = "save"
            /\ args' = [index |-> index, validate |-> validate, valid |-> valid,
                        kwargs |-> kwargs]
            /\ UNCHANGED <<index_name, d, mgetvars, declvars>>
            /\ IF validate /\ ~valid
                 THEN Raised("ValidationException") /\ meta' = meta
               ELSE IF gi.exc /= "none"
                 THEN Raised(gi.exc) /\ meta' = meta
               ELSE \E r \in [received : {TRUE}, result : Results,
                               body : Maps([k \in RespKeys |-> RespVals(k)])] :
                    /\ sent' = [api |-> "index", index |-> gi.val,
                                doc_type |-> doc_type_name,
                                body |-> to_dict(meta, d, index_name, FALSE, TRUE).ret.value,
                                params |-> doc_meta]
                    /\ calls' = 1
                    /\ resp' = r
                    /\ meta' = CopyMeta(meta, r.body)
                    /\ ret' = Return(SaveResult(r))
                    /\ exc' = "none"

\* Document.update
DocUpdate ==
    \E index \in IndexNames \cup {None}, fields \in Maps([k \in Fields |-> FieldValsOf(k)]) :
        LET merged == merge(d, fields)
            values == to_dict(meta, merged, index_name, FALSE, TRUE).ret.value
            doc == [k \in DOMAIN fields |-> IF k \in DOMAIN values THEN values[k] ELSE None]
            doc_meta == DocMeta(meta)
            body == [doc |-> doc, doc_as_upsert |-> FALSE, detect_noop |-> TRUE]
            gi == _get_index(meta, index_name, index, TRUE)
        IN  /\ op' = "update"
            /\ args' = [index |-> index, fields |-> fields]
            /\ UNCHANGED <<index_name, mgetvars, declvars>>
            /\ IF DOMAIN fields = {}
                 THEN Raised("IllegalOperation") /\ UNCHANGED <<meta, d>>
               ELSE IF gi.exc /= "none"
                 THEN Raised(gi.exc) /\ d' = merged /\ meta' = meta
               ELSE \E r \in [received : {TRUE}, body : Maps([k \in RespKeys |-> RespVals(k)])] :
                    /\ d' = merged
                    /\ sent' = [api |-> "update", index |-> gi.val,
                                doc_type |-> doc_type_name,
                                body |-> body, params |-> doc_meta]
                    /\ calls' = 1
                    /\ resp' = r
                    /\ meta' = CopyMeta(meta, r.body)
                    /\ ret' = Return(None)
                    /\ exc' = "none"

\* Document.delete
Delete ==
    \E index \in IndexNames \cup {None}, kwargs \in DeleteKwargs :
        LET doc_meta == Update(DocMeta(meta), kwargs)
            gi == _get_index(meta, index_name, index, TRUE)
        IN  /\ op' = "delete"
            /\ args' = [index |-> index, kwargs |-> kwargs]
            /\ UNCHANGED <<index_name, meta, d, mgetvars, declvars>>
            /\ IF gi.exc /= "none"
                 THEN Raised(gi.exc)
               ELSE /\ sent' = [api |-> "delete", index |-> gi.val,
                                doc_type |-> doc_type_name, params |-> doc_meta]
                    /\ calls' = 1
                    /\ resp' = [received |-> TRUE, body |-> EmptyMap]
                    /\ ret' = Return(None)
                    /\ exc' = "none"

----------------------------------------------------------------------------
\* Document.mget

\* cls.from_es(doc)
from_es(doc) == <<"instance", doc.id>>

\* cls._default_index(index): index or cls._index._name
_default_index(cname, index) == IF Truthy(index) THEN index ELSE cname

NoExc == [type |-> "none"]

\* objs, error_docs, missing_docs = [], [], []
InitAcc == [objs |-> <<>>, error_docs |-> <<>>, missing_docs |-> <<>>, exc |-> NoExc]

\* the loop body with a None placeholder for a missing record under 'skip' too
ScanDoc_SkipAsNone(a, doc, raise_on_error, missing) ==
    IF doc.found
      THEN IF a.error_docs /= <<>> \/ a.missing_docs /= <<>>
             THEN a
             ELSE [a EXCEPT !.objs = Append(@, from_es(doc))]
    ELSE IF doc.error
      THEN [a EXCEPT !.error_docs = IF raise_on_error THEN Append(@, doc) ELSE @,
                     !.objs = IF missing = "none" THEN Append(@, None) ELSE @]
    ELSE IF missing = "raise"
      THEN [a EXCEPT !.missing_docs = Append(@, doc)]
    ELSE [a EXCEPT !.objs = Append(@, None)]

\* the loop body raising as soon as it meets an error record
ScanDoc_RaiseAtFirstError(a, doc, raise_on_error, missing) ==
    IF doc.found
      THEN IF a.error_docs /= <<>> \/ a.missing_docs /= <<>>
             THEN a
             ELSE [a EXCEPT !.objs = Append(@, from_es(doc))]
    ELSE IF doc.error
      THEN IF raise_on_error
             THEN [a EXCEPT !.error_docs = Append(@, doc),
                            !.exc = [type |-> "RequestError", status |-> 400,
                                     ids |-> <<doc.id>>, info |-> <<doc>>]]
             ELSE [a EXCEPT !.objs = IF missing = "none" THEN Append(@, None) ELSE @]
    ELSE IF missing = "raise"
      THEN [a EXCEPT !.missing_docs = Append(@, doc)]
    ELSE IF missing = "none"
      THEN [a EXCEPT !.objs = Append(@, None)]
    ELSE a

\* body of the for loop over results['docs'], lines 231-249
ScanDoc(a, doc, raise_on_error, missing) ==
    IF doc.found
      THEN IF a.error_docs /= <<>> \/ a.missing_docs /= <<>>
             THEN a
             ELSE [a EXCEPT !.objs = Append(@, from_es(doc))]
    ELSE IF doc.error
      THEN [a EXCEPT !.error_docs = IF raise_on_error THEN Append(@, doc) ELSE @,
                     !.objs = IF missing = "none" THEN Append(@, None) ELSE @]
    ELSE IF missing = "raise"
      THEN [a EXCEPT !.missing_docs = Append(@, doc)]
    ELSE IF missing = "none"
      THEN [a EXCEPT !.objs = Append(@, None)]
    ELSE a

\* [doc['_id'] for doc in docs]
IdsOf(docs) == [i \in 1..Len(docs) |-> docs[i].id]

\* the statements after the loop with the two tests exchanged
Outcome_MissingFirst(a) ==
    IF a.missing_docs /= <<>>
      THEN [exc |-> [type |-> "NotFoundError", status |-> 404,
                     ids |-> IdsOf(a.missing_docs), info |-> a.missing_docs],
            ret |-> NoReturn]
    ELSE IF a.error_docs /= <<>>
      THEN [exc |-> [type |-> "RequestError", status |-> 400,
                     ids |-> IdsOf(a.error_docs), info |-> a.error_docs],
            ret |-> NoReturn]
    ELSE [exc |-> NoExc, ret |-> Return(a.objs)]

\* after the loop, lines 251-260: the exception raised, or the list returned
Outcome(a) ==
    IF a.error_docs /= <<>>
      THEN [exc |-> [type |-> "RequestError", status |-> 400,
                     ids |-> IdsOf(a.error_docs), info |-> a.error_docs],
            ret |-> NoReturn]
    ELSE IF a.missing_docs /= <<>>
      THEN [exc |-> [type |-> "NotFoundError", status |-> 404,
                     ids |-> IdsOf(a.missing_docs), info |-> a.missing_docs],
            ret |-> NoReturn]
    ELSE [exc |-> NoExc, ret |-> Return(a.objs)]

\* the records the engine can answer for n requested ids: one per id, in
\* request order, each found, not found, or carrying an error
Responses(n) ==
    {r \in [1..n -> [id : 1..n, found : BOOLEAN, error : BOOLEAN]] :
        \A i \in 1..n : r[i].id = i /\ ~(r[i].found /\ r[i].error)}

InitMget ==
    /\ mpc = "idle"
    /\ margs = None
    /\ msent = NoRequest
    /\ results = <<>>
    /\ pos = 1
    /\ acc = InitAcc
    /\ mexc = NoExc
    /\ mret = NoReturn
    /\ nraised = 0

\* lines 213-229: check the arguments, send the request, receive the response
MgetCall ==
    /\ mpc = "idle"
    /\ \E n \in 0..MaxDocs, index \in {None, <<"b">>}, raise_on_error \in BOOLEAN,
          missing \in {"raise", "skip", "none", "bogus"} :
        /\ margs' = [docs |-> [i \in 1..n |-> i], index |-> index,
                      raise_on_error |-> raise_on_error, missing |-> missing]
        /\ acc' = InitAcc
        /\ pos' = 1
        /\ mret' = NoReturn
        /\ IF missing \notin {"raise", "skip", "none"}
             THEN /\ mpc' = "done"
                  /\ mexc' = [type |-> "ValueError"]
                  /\ nraised' = 1
                  /\ msent' = NoRequest
                  /\ results' = <<>>
             ELSE /\ mpc' = "scan"
                  /\ mexc' = NoExc
                  /\ nraised' = 0
                  /\ msent' = [api |-> "mget", body |-> [docs |-> [i \in 1..n |-> [id |-> i]]],
                                index |-> _default_index(index_name, index),
                                doc_type |-> doc_type_name]
                  /\ results' \in Responses(n)
    /\ UNCHANGED <<docvars, declvars>>

\* one iteration of the for loop
MgetScan ==
    /\ mpc = "scan"
    /\ pos <= Len(results)
    /\ LET a == ScanDoc(acc, results[pos], margs.raise_on_error, margs.missing)
       IN  /\ acc' = a
           /\ pos' = pos + 1
           /\ IF a.exc /= NoExc
                THEN mpc' = "done" /\ mexc' = a.exc /\ nraised' = nraised + 1
                ELSE UNCHANGED <<mpc, mexc, nraised>>
    /\ UNCHANGED <<margs, msent, results, mret, docvars, declvars>>

\* the statements after the loop
MgetFinish ==
    /\ mpc = "scan"
    /\ pos > Len(results)
    /\ LET o == Outcome(acc)
       IN  /\ mexc' = o.exc
           /\ mret' = o.ret
           /\ nraised' = IF o.exc /= NoExc THEN nraised + 1 ELSE nraised
    /\ mpc' = "done"
    /\ UNCHANGED <<margs, msent, results, pos, acc, docvars, declvars>>

----------------------------------------------------------------------------
\* IndexMeta: declaration of document types

\* index.DEFAULT_INDEX, the first Index object constructed
DEFAULT_INDEX == 1
\* a base that is no document type and has no _index attribute
PlainBase == 0
\* the class Document itself, the first type IndexMeta builds
DocumentClass == 1

\* attrs.pop('Index', None): no inner class Index, or its attributes
NoOpts == [declared |-> FALSE]
IndexOpts == {NoOpts} \cup
             {[declared |-> TRUE, attrs |-> a] :
                 a \in {EmptyMap, [k \in {"name"} |-> <<"a">>]}}

\* getattr(o, k, default)
GetAttr(o, k, default) == IF k \in DOMAIN o THEN o[k] ELSE default

\* getattr(b, '_index', DEFAULT_INDEX)
BaseIndex(cl, b) == IF b = PlainBase THEN DEFAULT_INDEX ELSE cl[b].index

\* looking at the first base only
WalkBases_FirstBaseOnly(cl, bases, i) == BaseIndex(cl, bases[1])

\* for b in bases: if ... is not DEFAULT_INDEX: return b._index
\* return DEFAULT_INDEX
RECURSIVE WalkBases(_, _, _)
WalkBases(cl, bases, i) ==
    IF i > Len(bases) THEN DEFAULT_INDEX
    ELSE IF BaseIndex(cl, bases[i]) /= DEFAULT_INDEX THEN BaseIndex(cl, bases[i])
    ELSE WalkBases(cl, bases, i + 1)

\* IndexMeta.construct_index: the Index objects after the call and the one
\* it returns
construct_index(cl, idx, opts, bases) ==
    IF ~opts.declared
      THEN [indices |-> idx, index |-> WalkBases(cl, bases, 1)]
      ELSE [indices |-> Append(idx, [name |-> GetAttr(opts.attrs, "name", <<"*">>),
                                     using |-> GetAttr(opts.attrs, "using", <<"default">>),
                                     doc_types |-> <<>>]),
            index |-> Len(idx) + 1]

\* b is a or a subclass of a
RECURSIVE IsSubclass(_, _, _)
IsSubclass(cl, b, a) ==
    \/ b = a
    \/ /\ b /= PlainBase
       /\ \E i \in 1..Len(cl[b].bases) : IsSubclass(cl, cl[b].bases[i], a)

\* the base lists Python accepts for a new document type: distinct bases,
\* at least one document type, no base listed before one of its subclasses
BaseLists(cl) ==
    {bs \in UNION {[1..n -> 0..Len(cl)] : n \in 1..MaxBases} :
        /\ \A i, j \in 1..Len(bs) : i /= j => bs[i] /= bs[j]
        /\ \E i \in 1..Len(bs) : bs[i] /= PlainBase
        /\ \A i, j \in 1..Len(bs) : i < j => ~IsSubclass(cl, bs[j], bs[i])}

\* the state after the module is imported: DEFAULT_INDEX exists and
\* Document has been built on ObjectBase with no Index config
InitDecl ==
    /\ classes = <<[bases |-> <<PlainBase>>, opts |-> NoOpts, index |-> DEFAULT_INDEX]>>
    /\ indices = <<[name |-> <<"*">>, using |-> <<"default">>,
                    doc_types |-> <<DocumentClass>>]>>

\* IndexMeta.__new__: a class statement declaring a document type
DeclareClass ==
    /\ Len(classes) < MaxClasses + 1
    /\ \E bases \in BaseLists(classes), index_opts \in IndexOpts :
        LET new_cls == Len(classes) + 1
            c == construct_index(classes, indices, index_opts, bases)
        IN  /\ classes' = Append(classes, [bases |-> bases, opts |-> index_opts,
                                           index |-> c.index])
            /\ indices' = [c.indices EXCEPT
                              ![c.index].doc_types = Append(@, new_cls)]
    /\ UNCHANGED <<docvars, mgetvars>>

----------------------------------------------------------------------------
Init == InitDoc /\ InitMget /\ InitDecl

Next == SetAttr \/ ToDict \/ Save \/ DocUpdate \/ Delete

Spec == Init /\ [][Next]_vars

NextMget == MgetCall \/ MgetScan \/ MgetFinish

SpecMget == Init /\ [][NextMget]_vars

NextDecl == DeclareClass

SpecDecl == Init /\ [][NextDecl]_vars

----------------------------------------------------------------------------
\* Properties of the instance operations (checked under Spec)

\* the writes
Writes == {"save", "update", "delete"}

\* the errors raised locally, without the engine
LocalErrors == {"ValidationException", "IllegalOperation"}

\* The index a write addresses, as documented: the explicit argument, else
\* the instance's meta.index, else the name of the index bound to the type.
ResolvedName(index, m, cname) ==
    IF index /= None THEN index
    ELSE IF "index" \in DOMAIN m THEN m["index"]
    ELSE cname

ContainsStar(s) == "*" \in {s[i] : i \in 1..Len(s)}

\* update() called without field keyword arguments (in the next state)
NoFieldsUpdate == op' = "update" /\ DOMAIN args'.fields = {}

\* save() whose validation pass failed (in the next state)
FailedClean == op' = "save" /\ args'.validate /\ ~args'.valid

\* C3: every local error of save, update and delete is raised before any
\* request is sent: update without fields raises IllegalOperation, a write
\* whose index resolves to nothing or to a name containing '*' raises
\* ValidationException, and whenever a write raises a local error the
\* operation has issued zero transport calls and sent nothing.
C3_LocalErrorsBeforeRequest ==
    [][op' \in Writes =>
        LET res == ResolvedName(args'.index, meta, index_name)
        IN  /\ NoFieldsUpdate => exc' = "IllegalOperation"
            /\ (~NoFieldsUpdate /\ (res = None \/ ContainsStar(res)))
                   => exc' = "ValidationException"
            /\ exc' \in LocalErrors =>
                  calls' = 0 /\ sent' = NoRequest /\ resp' = NoResponse
            /\ exc' \notin LocalErrors => exc' = "none" /\ calls' = 1]_vars

\* C3 witness: a save addressed to a wildcard index has raised
\* ValidationException with no transport call.
C3_Witness ==
    /\ op = "save" /\ args.index = <<"b", "*">> /\ args.valid
    /\ exc = "ValidationException" /\ calls = 0

\* C4: a write that fails with a local error leaves the payload and the
\* metadata container exactly as they were before the call.
C4_NoPartialSideEffects ==
    [][(op' \in Writes /\ exc' \in LocalErrors) => (meta' = meta /\ d' = d)]_vars

\* C5: _get_index as used by the writes: the index sent to the engine is the
\* explicit argument, else meta.index, else the bound index's name; the
\* call fails with ValidationException when nothing resolves or the resolved
\* name contains '*'; no name containing '*' is ever sent.  Where the index
\* is not required (to_dict) an unresolved index is no error, a wildcard is.
C5_IndexResolution ==
    [][/\ (op' \in Writes /\ ~NoFieldsUpdate /\ ~FailedClean) =>
            LET res == ResolvedName(args'.index, meta, index_name)
            IN  IF res = None \/ ContainsStar(res)
                  THEN exc' = "ValidationException" /\ sent' = NoRequest
                  ELSE exc' = "none" /\ sent'.index = res /\ ~ContainsStar(sent'.index)
       /\ (op' = "to_dict" /\ args'.include_meta) =>
            LET res == ResolvedName(None, meta, index_name)
            IN  (exc' = "ValidationException") <=> ContainsStar(res)]_vars

\* C5 witness: a write without index argument on an instance whose
\* meta.index is set went to meta.index, not to the bound index.
C5_Witness ==
    /\ op = "delete" /\ args.index = None /\ exc = "none"
    /\ index_name = <<"a">> /\ "index" \in DOMAIN meta
    /\ sent.index = <<"b">> /\ meta["index"] = <<"b">>

\* C6: a successful save or update stores, for every META_FIELDS name in the
\* response, the response's value; every other metadata key keeps its
\* value; response keys outside META_FIELDS are not stored.
C6_MetaCopiedFromResponse ==
    [][(op' \in {"save", "update"} /\ exc' = "none") =>
        /\ DOMAIN meta' = DOMAIN meta \cup (META_FIELDS \cap DOMAIN resp'.body)
        /\ \A k \in DOMAIN meta' :
              meta'[k] = IF k \in DOMAIN resp'.body THEN resp'.body[k] ELSE meta[k]]_vars

\* C6 witness: a save stored the response's id, kept a routing the response
\* did not carry, and did not store the response's shards key.
C6_Witness ==
    /\ op = "save" /\ exc = "none"
    /\ DOMAIN resp.body = {"id", "shards"}
    /\ DOMAIN meta = {"id", "routing"}
    /\ resp.body["id"] = <<"2">> /\ meta["id"] = <<"2">>

\* C7: to_dict(include_meta=True) returns a mapping with the payload under
\* '_source', the type name under '_type', '_' + k for exactly the
\* DOC_META_FIELDS present in the metadata, and '_index' set to the resolved
\* index, omitted when no index resolves.
C7_ToDictWithMeta ==
    (op = "to_dict" /\ args.include_meta) =>
        LET res == ResolvedName(None, meta, index_name)
        IN  /\ exc = "none"
            /\ DOMAIN ret.value = {"_source", "_type"}
                             \cup {"_" \o k : k \in DOC_META_FIELDS \cap DOMAIN meta}
                             \cup (IF res = None THEN {} ELSE {"_index"})
            /\ ret.value["_type"] = doc_type_name
            /\ DOMAIN ret.value["_source"] \subseteq DOMAIN d
            /\ \A k \in DOMAIN ret.value["_source"] : ret.value["_source"][k] = d[k]
            /\ \A k \in DOMAIN d :
                  k \in DOMAIN ret.value["_source"] \/ (args.skip_empty /\ d[k] = Empty)
            /\ \A k \in DOC_META_FIELDS \cap DOMAIN meta : ret.value["_" \o k] = meta[k]
            /\ res /= None => ret.value["_index"] = res

\* C9: save() returns True exactly when the response's result is 'created'.
C9_SaveReturnsCreated ==
    (op = "save" /\ exc = "none") =>
        /\ ret.returned
        /\ ret.value \in BOOLEAN
        /\ ret.value <=> (resp.result = "created")

\* C9 witness: a save answered 'noop' returned False.
C9_Witness ==
    /\ op = "save" /\ exc = "none" /\ resp.result = "noop" /\ ret.value = FALSE

----------------------------------------------------------------------------
\* Properties of mget (checked under SpecMget)

\* the records of the response that were found, carry an engine error, or
\* are simply missing, in response order
FoundRecs == SelectSeq(results, LAMBDA r : r.found)
ErrorRecs == SelectSeq(results, LAMBDA r : ~r.found /\ r.error)
MissingRecs == SelectSeq(results, LAMBDA r : ~r.found /\ ~r.error)

\* the call has ended, having sent its request
MgetDone == mpc = "done" /\ msent /= NoRequest

\* C1: on a response without error records, missing='skip' returns the
\* instances of exactly the found records in request order, missing='none'
\* returns a list as long as the request with None exactly at the missing
\* positions and the record's instance elsewhere, and missing='raise' with
\* at least one missing record returns no list and raises a NotFoundError
\* that references the missing records.
C1_MgetMissingPolicy ==
    (MgetDone /\ ErrorRecs = <<>>) =>
        /\ margs.missing = "skip" =>
              /\ mexc = NoExc
              /\ mret.returned
              /\ mret.value = [i \in 1..Len(FoundRecs) |-> from_es(FoundRecs[i])]
        /\ margs.missing = "none" =>
              /\ mexc = NoExc
              /\ mret.returned
              /\ Len(mret.value) = Len(margs.docs)
              /\ \A i \in 1..Len(mret.value) :
                    mret.value[i] = IF results[i].found THEN from_es(results[i]) ELSE None
        /\ (margs.missing = "raise" /\ MissingRecs /= <<>>) =>
              /\ mret = NoReturn
              /\ mexc.type = "NotFoundError"
              /\ mexc.info = MissingRecs
              /\ mexc.ids = [i \in 1..Len(MissingRecs) |-> MissingRecs[i].id]

\* C1 witness: [A, B, C] with B missing and missing='skip' returned
\* [instA, instC].
C1_Witness ==
    /\ MgetDone /\ margs.missing = "skip" /\ Len(results) = 3
    /\ results[1].found /\ ~results[2].found /\ ~results[2].error /\ results[3].found
    /\ mret = Return(<<from_es(results[1]), from_es(results[3])>>)

\* C2: with raise_on_error=True and missing='raise', a response holding at
\* least one error record and at least one missing record, at any
\* positions, makes the call raise the RequestError (status 400), never the
\* NotFoundError, and only that one exception.
C2_ErrorPrecedence ==
    (MgetDone /\ margs.raise_on_error /\ margs.missing = "raise"
       /\ ErrorRecs /= <<>> /\ MissingRecs /= <<>>) =>
        /\ mexc.type = "RequestError"
        /\ mexc.status = 400
        /\ nraised = 1
        /\ mret = NoReturn

\* C2 witness: the missing record came before the error record and the
\* RequestError was raised.
C2_Witness ==
    /\ MgetDone /\ margs.raise_on_error /\ margs.missing = "raise"
    /\ Len(results) >= 2
    /\ ~results[1].found /\ ~results[1].error
    /\ ~results[2].found /\ results[2].error
    /\ mexc.type = "RequestError"

\* C10: no batch error is raised while the records are being scanned; after
\* the scan at most one exception is raised, and it carries every offending
\* record of the response: the RequestError all error records (raise_on_error
\* is set then), the NotFoundError all missing records (missing is 'raise'
\* then).
C10_BatchErrorsAggregated ==
    /\ mpc = "scan" => (mexc = NoExc /\ nraised = 0)
    /\ nraised <= 1
    /\ mexc.type \in {"RequestError", "NotFoundError"} =>
          /\ mpc = "done"
          /\ pos = Len(results) + 1
    /\ mexc.type = "RequestError" =>
          /\ margs.raise_on_error
          /\ mexc.info = ErrorRecs
    /\ mexc.type = "NotFoundError" =>
          /\ margs.missing = "raise"
          /\ mexc.info = MissingRecs

\* C10 witness: a RequestError carrying two error records, the second of
\* them after a found record.
C10_Witness ==
    /\ mpc = "done" /\ mexc.type = "RequestError" /\ Len(mexc.info) = 2
    /\ Len(results) = 3 /\ results[2].found

----------------------------------------------------------------------------
\* Properties of type declaration (checked under SpecDecl)

\* the positions of the bases of class c whose bound index is not the
\* default sentinel
BoundBases(c) ==
    {i \in 1..Len(classes[c].bases) :
        /\ classes[c].bases[i] /= PlainBase
        /\ classes[classes[c].bases[i]].index /= DEFAULT_INDEX}

\* C8: a type that declares no Index config is bound to the index of the
\* first of its bases, in declaration order, whose bound index is not the
\* default sentinel, and to the sentinel (name '*') when no base has one; a
\* type that declares an Index config is bound to an index constructed for
\* it, which is neither the sentinel nor the index of any earlier type.
C8_IndexInheritance ==
    /\ indices[DEFAULT_INDEX].name = <<"*">>
    /\ \A c \in 1..Len(classes) :
        IF ~classes[c].opts.declared
          THEN IF BoundBases(c) = {}
                 THEN classes[c].index = DEFAULT_INDEX
                 ELSE \E i \in BoundBases(c) :
                        /\ \A j \in BoundBases(c) : i <= j
                        /\ classes[c].index = classes[classes[c].bases[i]].index
          ELSE /\ classes[c].index /= DEFAULT_INDEX
               /\ classes[c].index \in 1..Len(indices)
               /\ \A b \in 1..(c - 1) : classes[b].index /= classes[c].index

\* C8 witness: a type without Index config whose first base is bound to the
\* sentinel and whose second base is bound to an index named '*' that is not
\* the sentinel; the type inherited the second base's index.
C8_Witness ==
    \E c \in 1..Len(classes) :
        /\ ~classes[c].opts.declared
        /\ Len(classes[c].bases) = 2
        /\ classes[c].bases[1] /= PlainBase
        /\ classes[classes[c].bases[1]].index = DEFAULT_INDEX
        /\ classes[c].bases[2] /= PlainBase
        /\ classes[c].index = classes[classes[c].bases[2]].index
        /\ classes[c].index /= DEFAULT_INDEX
        /\ indices[classes[c].index].name = <<"*">>

====
